---- MODULE Spec2Model ----
(***************************************************************************)
(* Record linkage (Fellegi-Sunter) of src/record_linkage.py.               *)
(*                                                                         *)
(* Three specifications share the variables below:                         *)
(*   SpecPutLabels  put_labels, one loop iteration in two steps            *)
(*   SpecProbs      compute_probabilities, one training row per step       *)
(*   SpecFind       find_matches: training, labelling, the output loop     *)
(*                                                                         *)
(* Probabilities are exact rationals <<numerator, denominator>> in lowest  *)
(* terms; the rounding of Python's floats is not modelled.                 *)
(***************************************************************************)
EXTENDS Integers, Sequences, FiniteSets

VARIABLES
    pc,             \* position in the function being run
    ordered_probs,  \* put_labels: list of <<signature, match-mass, unmatch-mass>>
    mu,             \* maximum false positive rate
    lambda_,        \* maximum false negative rate
    i,              \* loop variable (put_labels, compute_probabilities, find_matches)
    u,              \* put_labels: running sum of the head sweep
    m,              \* put_labels: running sum of the tail sweep
    labels,         \* put_labels: the dictionary being built
    headAcc,        \* history: positions whose head-sweep test (line 117) passed
    tailAcc,        \* history: positions whose tail-sweep test (line 111) passed
    headStop,       \* history: the head-sweep test has failed at least once
    tailStop,       \* history: the tail-sweep test has failed at least once
    df,             \* compute_probabilities: the training rows <<z_i, f_i>>
    zagat,          \* dataset A: index -> record
    fodors,         \* dataset B: index -> record
    probs,          \* compute_probabilities: the dictionary being built
    match,          \* find_matches: known links
    unmatch,        \* find_matches: known non-links
    block_on_city,  \* find_matches: parameter
    label_dict,     \* find_matches: result of put_labels
    j,              \* find_matches: inner loop variable
    rows            \* find_matches: rows written to the output file

vars == <<pc, ordered_probs, mu, lambda_, i, u, m, labels, headAcc, tailAcc,
          headStop, tailStop, df, zagat, fodors, probs, match, unmatch,
          block_on_city, label_dict, j, rows>>

plVars == <<ordered_probs, mu, lambda_, i, u, m, labels, headAcc, tailAcc,
            headStop, tailStop>>
cpVars == <<df, probs>>
fmVars == <<match, unmatch, block_on_city, label_dict, j, rows>>
dataVars == <<zagat, fodors>>

----------------------------------------------------------------------------
(* Bounds *)

\* Longest ranked list handed to put_labels.
MaxLen == 3
\* Masses and error bounds of SpecPutLabels are multiples of 1/Unit.
Unit == 2
\* Most training rows handed to compute_probabilities in SpecProbs.
MaxRows == 3

----------------------------------------------------------------------------
(* Exact arithmetic *)

RECURSIVE GCD(_, _)
GCD(a, b) == IF b = 0 THEN a ELSE GCD(b, a % b)

Rat(n, d) == LET g == GCD(n, d) IN <<n \div g, d \div g>>

Zero == <<0, 1>>

One == <<1, 1>>

RatAdd(x, y) == Rat(x[1] * y[2] + y[1] * x[2], x[2] * y[2])

RatLeq(x, y) == x[1] * y[2] <= y[1] * x[2]

RatLess(x, y) == x[1] * y[2] < y[1] * x[2]

(* Python dictionaries *)

EmptyDict == << >>

Get(d, k, default) == IF k \in DOMAIN d THEN d[k] ELSE default

Put(d, k, v) == [x \in (DOMAIN d) \cup {k} |-> IF x = k THEN v ELSE d[x]]

None == "None"

LabelSet == {"match", "unmatch", "possible match"}

----------------------------------------------------------------------------
(* Signatures: tuples of similarity categories, one per column *)

Columns == <<"restaurant name", "city", "street address">>

Categories == <<"high", "medium", "low">>

\* The k-th signature of a fixed enumeration of distinct signatures
\* (k in 1..27); the lists of SpecPutLabels hold SigAt(1), SigAt(2), ...
SigAt(k) ==
    <<Categories[((k - 1) % 3) + 1],
      Categories[(((k - 1) \div 3) % 3) + 1],
      Categories[(((k - 1) \div 9) % 3) + 1]>>

----------------------------------------------------------------------------
(* put_labels *)

\* ordered_probs[-i - 1]
TailIdx(op, k) == Len(op) - k

\* ordered_probs[i]
HeadIdx(k) == k + 1

\* line 111: m + ordered_probs[-i - 1][1] <= lambda_
TailFits(op, lam, k, mm) == RatLeq(RatAdd(mm, op[TailIdx(op, k)][2]), lam)

\* lines 112, 116
TailM(op, lam, k, mm) ==
    IF TailFits(op, lam, k, mm)
    THEN RatAdd(mm, op[TailIdx(op, k)][2])
    ELSE lam

TailLabels_Overwrite(op, lam, k, mm, lab) ==
    IF TailFits(op, lam, k, mm)
    THEN Put(lab, op[TailIdx(op, k)][1], "unmatch")
    ELSE lab

\* lines 113-114
TailLabels(op, lam, k, mm, lab) ==
    IF TailFits(op, lam, k, mm)
       /\ Get(lab, op[TailIdx(op, k)][1], None) # "match"
    THEN Put(lab, op[TailIdx(op, k)][1], "unmatch")
    ELSE lab

HeadFits_Reversed(op, mu_, k, uu) == RatLeq(mu_, RatAdd(uu, op[HeadIdx(k)][3]))

HeadFits_Strict(op, mu_, k, uu) == RatLess(RatAdd(uu, op[HeadIdx(k)][3]), mu_)

\* line 117: u + ordered_probs[i][2] <= mu
HeadFits(op, mu_, k, uu) == RatLeq(RatAdd(uu, op[HeadIdx(k)][3]), mu_)

HeadU_NoAdd(op, mu_, k, uu) ==
    IF HeadFits(op, mu_, k, uu) THEN uu ELSE mu_

HeadU_MatchMass(op, mu_, k, uu) ==
    IF HeadFits(op, mu_, k, uu)
    THEN RatAdd(uu, op[HeadIdx(k)][2])
    ELSE mu_

HeadU_NoClamp(op, mu_, k, uu) ==
    IF HeadFits(op, mu_, k, uu)
    THEN RatAdd(uu, op[HeadIdx(k)][3])
    ELSE uu

\* lines 118, 121
HeadU(op, mu_, k, uu) ==
    IF HeadFits(op, mu_, k, uu)
    THEN RatAdd(uu, op[HeadIdx(k)][3])
    ELSE mu_

HeadLabels_NoDefault(op, mu_, k, uu, lab) ==
    IF HeadFits(op, mu_, k, uu)
    THEN Put(lab, op[HeadIdx(k)][1], "match")
    ELSE lab

\* lines 119, 122
HeadLabels(op, mu_, k, uu, lab) ==
    IF HeadFits(op, mu_, k, uu)
    THEN Put(lab, op[HeadIdx(k)][1], "match")
    ELSE Put(lab, op[HeadIdx(k)][1],
             Get(lab, op[HeadIdx(k)][1], "possible match"))

\* lines 110-123 from iteration k on, as a function
RECURSIVE PutLabelsLoop(_, _, _, _, _, _, _)
PutLabelsLoop(op, mu_, lam, k, uu, mm, lab) ==
    IF k >= Len(op)
    THEN lab
    ELSE PutLabelsLoop(op, mu_, lam, k + 1,
                       HeadU(op, mu_, k, uu),
                       TailM(op, lam, k, mm),
                       HeadLabels(op, mu_, k, uu,
                                  TailLabels(op, lam, k, mm, lab)))

\* lines 107-123
put_labels(op, mu_, lam) ==
    PutLabelsLoop(op, mu_, lam, 0, Zero, Zero, EmptyDict)

----------------------------------------------------------------------------
(* SpecPutLabels: put_labels on every list of at most MaxLen distinct      *)
(* signatures whose masses are multiples of 1/Unit, each class's masses    *)
(* adding up to at most 1 (they are shares of one distribution), in any    *)
(* order, with mu and lambda_ multiples of 1/Unit in [0,1].                *)

RECURSIVE SumTo(_, _)
SumTo(f, n) == IF n = 0 THEN 0 ELSE f[n] + SumTo(f, n - 1)

MassVectors(n) == {v \in [1..n -> 0..Unit] : SumTo(v, n) <= Unit}

ProbLists(n) ==
    {[k \in 1..n |-> <<SigAt(k), Rat(a[k], Unit), Rat(b[k], Unit)>>] :
        a \in MassVectors(n), b \in MassVectors(n)}

Bounds01 == {Rat(k, Unit) : k \in 0..Unit}

Idle == "idle"

InitProbsIdle == df = Idle /\ probs = Idle

InitFindIdle ==
    /\ match = Idle /\ unmatch = Idle /\ block_on_city = Idle
    /\ label_dict = Idle /\ j = Idle /\ rows = Idle

InitDataIdle == zagat = Idle /\ fodors = Idle

InitPutLabels ==
    /\ \E n \in 0..MaxLen : ordered_probs \in ProbLists(n)
    /\ mu \in Bounds01
    /\ lambda_ \in Bounds01
    /\ u = Zero
    /\ m = Zero
    /\ labels = EmptyDict
    /\ i = 0
    /\ pc = "for"
    /\ headAcc = {} /\ tailAcc = {} /\ headStop = FALSE /\ tailStop = FALSE
    /\ InitProbsIdle /\ InitFindIdle /\ InitDataIdle

\* line 110: the loop takes its next i
LoopNext ==
    /\ pc = "for"
    /\ i < Len(ordered_probs)
    /\ pc' = "tail"
    /\ UNCHANGED <<plVars, cpVars, fmVars, dataVars>>

\* lines 111-116
TailStep ==
    /\ pc = "tail"
    /\ m' = TailM(ordered_probs, lambda_, i, m)
    /\ labels' = TailLabels(ordered_probs, lambda_, i, m, labels)
    /\ tailAcc' = IF TailFits(ordered_probs, lambda_, i, m)
                  THEN tailAcc \cup {TailIdx(ordered_probs, i)} ELSE tailAcc
    /\ tailStop' = (tailStop \/ ~TailFits(ordered_probs, lambda_, i, m))
    /\ pc' = "head"
    /\ UNCHANGED <<ordered_probs, mu, lambda_, i, u, headAcc, headStop,
                   cpVars, fmVars, dataVars>>

\* lines 117-122
HeadStep ==
    /\ pc = "head"
    /\ u' = HeadU(ordered_probs, mu, i, u)
    /\ labels' = HeadLabels(ordered_probs, mu, i, u, labels)
    /\ headAcc' = IF HeadFits(ordered_probs, mu, i, u)
                  THEN headAcc \cup {HeadIdx(i)} ELSE headAcc
    /\ headStop' = (headStop \/ ~HeadFits(ordered_probs, mu, i, u))
    /\ i' = i + 1
    /\ pc' = "for"
    /\ UNCHANGED <<ordered_probs, mu, lambda_, m, tailAcc, tailStop,
                   cpVars, fmVars, dataVars>>

\* line 123
ReturnLabels ==
    /\ pc = "for"
    /\ i >= Len(ordered_probs)
    /\ pc' = "done"
    /\ UNCHANGED <<plVars, cpVars, fmVars, dataVars>>

NextPutLabels == LoopNext \/ TailStep \/ HeadStep \/ ReturnLabels

SpecPutLabels == InitPutLabels /\ [][NextPutLabels]_vars

----------------------------------------------------------------------------
(* Vocabulary of the put_labels claims *)

Positions == 1..Len(ordered_probs)

SigOf(k) == ordered_probs[k][1]

MatchMass(k) == ordered_probs[k][2]

UnmatchMass(k) == ordered_probs[k][3]

SigSet == {SigOf(k) : k \in Positions}

Labelled(l) == {k \in Positions : SigOf(k) \in DOMAIN labels /\ labels[SigOf(k)] = l}

RECURSIVE RatSum(_, _)
RatSum(S, col) ==
    IF S = {} THEN Zero
    ELSE LET k == CHOOSE x \in S : TRUE
         IN RatAdd(ordered_probs[k][col], RatSum(S \ {k}, col))

CountOf(d, l) == Cardinality({s \in DOMAIN d : d[s] = l})

IsPrefix(S) == \A k \in S : \A q \in 1..k : q \in S

IsSuffix(S) == \A k \in S : \A q \in k..Len(ordered_probs) : q \in S

\* Descending match-mass / unmatch-mass ratio, zero unmatch-mass first.
IsRanked ==
    \A a, b \in Positions :
        a < b => MatchMass(a)[1] * MatchMass(b)[2] * UnmatchMass(b)[1] * UnmatchMass(a)[2]
                 >= MatchMass(b)[1] * MatchMass(a)[2] * UnmatchMass(a)[1] * UnmatchMass(b)[2]

AllMassive ==
    \A k \in Positions : RatLess(Zero, MatchMass(k)) \/ RatLess(Zero, UnmatchMass(k))

----------------------------------------------------------------------------
(* C1: the mapping put_labels returns gives every signature of the list    *)
(* exactly one label, and a signature whose test passed in both sweeps     *)
(* ends up "match", whichever sweep reached it first.                      *)
C1_MatchWins ==
    pc = "done" =>
        /\ \A k \in Positions :
              SigOf(k) \in DOMAIN labels /\ labels[SigOf(k)] \in LabelSet
        /\ \A k \in headAcc \cap tailAcc : labels[SigOf(k)] = "match"

\* A finished run in which the tail sweep reached a doubly accepted
\* signature strictly before the head sweep did.
C1_Witness ==
    /\ pc = "done"
    /\ \E k \in headAcc \cap tailAcc :
          Len(ordered_probs) - k < k - 1

(* C2: at the return of put_labels the unmatch-mass of the signatures      *)
(* labelled "match" is at most mu and the match-mass of the signatures     *)
(* labelled "unmatch" is at most lambda_.                                  *)
C2_ErrorBounds ==
    pc = "done" =>
        /\ RatLeq(RatSum(Labelled("match"), 3), mu)
        /\ RatLeq(RatSum(Labelled("unmatch"), 2), lambda_)

\* Both bounds are positive and met with equality, and each sweep has
\* turned a signature down.
C2_Witness ==
    /\ pc = "done"
    /\ RatLess(Zero, mu) /\ RatSum(Labelled("match"), 3) = mu
    /\ RatLess(Zero, lambda_) /\ RatSum(Labelled("unmatch"), 2) = lambda_
    /\ headStop /\ tailStop

(* C3: for the same list, a larger mu (same lambda_) never gives fewer     *)
(* "match" labels and a larger lambda_ (same mu) never gives fewer         *)
(* "unmatch" labels.                                                       *)
C3_Monotone ==
    pc = "done" =>
        /\ \A mu2 \in Bounds01 :
              RatLeq(mu, mu2) =>
                  CountOf(put_labels(ordered_probs, mu2, lambda_), "match")
                      >= CountOf(labels, "match")
        /\ \A lam2 \in Bounds01 :
              RatLeq(lambda_, lam2) =>
                  CountOf(put_labels(ordered_probs, mu, lam2), "unmatch")
                      >= CountOf(labels, "unmatch")

\* A finished run for which a larger mu gives strictly more "match" labels
\* and a larger lambda_ strictly more "unmatch" labels.
C3_Witness ==
    /\ pc = "done"
    /\ \E mu2 \in Bounds01 :
          /\ RatLess(mu, mu2)
          /\ CountOf(put_labels(ordered_probs, mu2, lambda_), "match")
                 > CountOf(labels, "match")
    /\ \E lam2 \in Bounds01 :
          /\ RatLess(lambda_, lam2)
          /\ CountOf(put_labels(ordered_probs, mu, lam2), "unmatch")
                 > CountOf(labels, "unmatch")

(* C5: at the return of put_labels the keys of the mapping are exactly the *)
(* signatures of the list and every value is one of the three labels.      *)
C5_TotalMapping ==
    pc = "done" =>
        /\ DOMAIN labels = SigSet
        /\ \A s \in DOMAIN labels : labels[s] \in LabelSet

\* A finished run over at least two signatures, one of them left
\* "possible match" by both sweeps.
C5_Witness ==
    /\ pc = "done"
    /\ Len(ordered_probs) >= 2
    /\ \E k \in Positions : k \notin headAcc \cup tailAcc
                            /\ labels[SigOf(k)] = "possible match"

(* C9 as stated: the head sweep's running sum is the match-mass of the     *)
(* signatures it accepted, the tail sweep's the unmatch-mass of those it   *)
(* accepted.                                                               *)
C9_OwnClassMass ==
    /\ ~headStop => u = RatSum(headAcc, 2)
    /\ ~tailStop => m = RatSum(tailAcc, 3)

(* C9 amended: each sweep accumulates the mass of the OTHER class.  The    *)
(* head sweep's running sum is the unmatch-mass of the signatures it       *)
(* accepted (mu once its test has failed), stays <= mu, and every          *)
(* signature it accepted is "match"; the tail sweep's running sum is the   *)
(* match-mass of the signatures it accepted (lambda_ once its test has     *)
(* failed), stays <= lambda_, and every signature it accepted is           *)
(* "unmatch" unless the head sweep made it "match".                        *)
C9_OtherClassMass ==
    /\ ~headStop => u = RatSum(headAcc, 3)
    /\ headStop => u = mu
    /\ RatLeq(RatSum(headAcc, 3), mu)
    /\ \A k \in headAcc : labels[SigOf(k)] = "match"
    /\ ~tailStop => m = RatSum(tailAcc, 2)
    /\ tailStop => m = lambda_
    /\ RatLeq(RatSum(tailAcc, 2), lambda_)
    /\ \A k \in tailAcc :
          labels[SigOf(k)] = (IF k \in headAcc THEN "match" ELSE "unmatch")

\* Both sweeps have accepted a signature with positive mass in both
\* classes, the two masses being different.
C9_Witness ==
    /\ \E k \in headAcc : RatLess(Zero, UnmatchMass(k)) /\ MatchMass(k) # UnmatchMass(k)
    /\ \E k \in tailAcc : RatLess(Zero, MatchMass(k)) /\ MatchMass(k) # UnmatchMass(k)
    /\ u # RatSum(headAcc, 2)
    /\ m # RatSum(tailAcc, 3)

(* C10: on a ranked list whose signatures all have some positive mass,     *)
(* once a sweep's test has failed its running sum is the bound and no      *)
(* signature it reaches later is accepted: the accepted positions of the   *)
(* head sweep are a prefix, those of the tail sweep a suffix; at the       *)
(* return "match" is a prefix of the list, "unmatch" a suffix, and         *)
(* everything between is "possible match".                                 *)
C10_PrefixSuffix ==
    (IsRanked /\ AllMassive) =>
        /\ headStop => u = mu
        /\ tailStop => m = lambda_
        /\ IsPrefix(headAcc)
        /\ IsSuffix(tailAcc)
        /\ pc = "done" =>
              /\ IsPrefix(Labelled("match"))
              /\ IsSuffix(Labelled("unmatch"))
              /\ \A k \in Positions :
                    k \notin Labelled("match") \cup Labelled("unmatch")
                        => labels[SigOf(k)] = "possible match"

\* A finished run on a ranked list: both tests failed, and the list splits
\* into a "match" prefix, a "possible match" middle and an "unmatch" suffix.
C10_Witness ==
    /\ IsRanked /\ AllMassive
    /\ pc = "done"
    /\ headStop /\ tailStop
    /\ Labelled("match") # {}
    /\ Labelled("unmatch") # {}
    /\ Labelled("possible match") # {}

----------------------------------------------------------------------------
(* Datasets and gen_prob_tuple *)

\* zagat.index, fodors.index in file order
ZagatIndex == <<1, 2>>

FodorsIndex == <<1, 2>>

\* Sample rows: <<restaurant name, city, street address>>
Records ==
    {<<"ritz", "la", "1 main st">>,
     <<"ritx", "la", "1 main st">>,
     <<"ritz", "ny", "1 main st">>}

Datasets(index) == [{index[k] : k \in 1..Len(index)} -> Records]

\* jellyfish.jaro_winkler_similarity in thousandths, on the sample strings
JaroWinkler(a, b) ==
    IF a = b THEN 1000
    ELSE IF {a, b} = {"ritz", "ritx"} THEN 883
    ELSE 0

\* util.get_jw_category
get_jw_category(sim) ==
    IF sim >= 900 THEN "high"
    ELSE IF sim >= 500 THEN "medium"
    ELSE "low"

\* lines 140-146
gen_prob_tuple(z_i, f_i, za, fo) ==
    LET z == za[z_i]
        f == fo[f_i]
    IN [k \in 1..Len(z) |-> get_jw_category(JaroWinkler(z[k], f[k]))]

----------------------------------------------------------------------------
(* compute_probabilities *)

InitialProbs_Seeded == [s \in {SigAt(1)} |-> Zero]

\* line 66
InitialProbs == EmptyDict

ProbsStep_Overwrite(pr, frame, k, za, fo) ==
    LET row == frame[k + 1]
        tpl == gen_prob_tuple(row[1], row[2], za, fo)
    IN Put(pr, tpl, Rat(1, Len(frame)))

\* lines 68-71, iteration k of the loop over range(len(df))
ProbsStep(pr, frame, k, za, fo) ==
    LET row == frame[k + 1]
        tpl == gen_prob_tuple(row[1], row[2], za, fo)
    IN Put(pr, tpl, RatAdd(Get(pr, tpl, Zero), Rat(1, Len(frame))))

RECURSIVE ProbsLoop(_, _, _, _, _)
ProbsLoop(pr, frame, k, za, fo) ==
    IF k >= Len(frame)
    THEN pr
    ELSE ProbsLoop(ProbsStep(pr, frame, k, za, fo), frame, k + 1, za, fo)

\* lines 66-72
compute_probabilities(frame, za, fo) == ProbsLoop(InitialProbs, frame, 0, za, fo)

Pairs == {<<ZagatIndex[a], FodorsIndex[b]>> :
             a \in 1..Len(ZagatIndex), b \in 1..Len(FodorsIndex)}

Frames(n) == [1..n -> Pairs]

InitPutLabelsIdle ==
    /\ ordered_probs = Idle /\ mu = Idle /\ lambda_ = Idle /\ u = Idle
    /\ m = Idle /\ labels = Idle /\ headAcc = Idle /\ tailAcc = Idle
    /\ headStop = Idle /\ tailStop = Idle

(* SpecProbs: compute_probabilities on every frame of at most MaxRows      *)
(* training rows over the sample datasets.                                 *)
InitProbs ==
    /\ zagat \in Datasets(ZagatIndex)
    /\ fodors \in Datasets(FodorsIndex)
    /\ \E n \in 0..MaxRows : df \in Frames(n)
    /\ probs = InitialProbs
    /\ i = 0
    /\ pc = "rows"
    /\ InitPutLabelsIdle /\ InitFindIdle

\* lines 67-71
ProbsRow ==
    /\ pc = "rows"
    /\ i < Len(df)
    /\ probs' = ProbsStep(probs, df, i, zagat, fodors)
    /\ i' = i + 1
    /\ UNCHANGED <<pc, df, dataVars, fmVars, ordered_probs, mu, lambda_, u, m,
                   labels, headAcc, tailAcc, headStop, tailStop>>

\* line 72
ProbsReturn ==
    /\ pc = "rows"
    /\ i >= Len(df)
    /\ pc' = "returned"
    /\ UNCHANGED <<i, cpVars, dataVars, fmVars, ordered_probs, mu, lambda_, u,
                   m, labels, headAcc, tailAcc, headStop, tailStop>>

NextProbs == ProbsRow \/ ProbsReturn

SpecProbs == InitProbs /\ [][NextProbs]_vars

----------------------------------------------------------------------------
(* Vocabulary of the compute_probabilities claims *)

RowSig(frame, k) == gen_prob_tuple(frame[k][1], frame[k][2], zagat, fodors)

RowsWith(frame, s) == {k \in 1..Len(frame) : RowSig(frame, k) = s}

RECURSIVE DictSum(_)
DictSum(d) ==
    IF DOMAIN d = {} THEN Zero
    ELSE LET k == CHOOSE x \in DOMAIN d : TRUE
         IN RatAdd(d[k], DictSum([x \in (DOMAIN d) \ {k} |-> d[x]]))

Perms(n) == {p \in [1..n -> 1..n] : \A a, b \in 1..n : p[a] = p[b] => a = b}

C7_RelativeFrequencies ==
    (pc = "returned" /\ Len(df) > 0) =>
        /\ DOMAIN probs = {RowSig(df, k) : k \in 1..Len(df)}
        /\ \A s \in DOMAIN probs :
              probs[s] = Rat(Cardinality(RowsWith(df, s)), Len(df))
        /\ DictSum(probs) = One
        /\ \A p \in Perms(Len(df)) :
              compute_probabilities([k \in 1..Len(df) |-> df[p[k]]],
                                    zagat, fodors) = probs

\* A returned call on at least three rows, two of them with the same
\* signature and one with another.
C7_Witness ==
    /\ pc = "returned"
    /\ Len(df) >= 3
    /\ \E s, t \in DOMAIN probs :
          s # t /\ Cardinality(RowsWith(df, s)) >= 2
          /\ RowSig(df, 1) = s /\ RowSig(df, 2) = t

----------------------------------------------------------------------------
(* ordered_probabilities and find_matches *)

\* util.sort_prob_tuples: descending match-mass / unmatch-mass ratio, zero
\* unmatch-mass first.  Equal ratios keep the order of the list built from
\* a Python set, which is arbitrary: every ranked arrangement is possible.
sort_prob_tuples(prob_tuples) ==
    {t \in [1..Cardinality(prob_tuples) -> prob_tuples] :
        /\ \A a, b \in DOMAIN t : t[a] = t[b] => a = b
        /\ \A a, b \in DOMAIN t :
              a < b => t[a][2][1] * t[b][2][2] * t[b][3][1] * t[a][3][2]
                       >= t[b][2][1] * t[a][2][2] * t[a][3][1] * t[b][3][2]}

\* lines 87-90: the set of lists the call may return
ordered_probabilities(mp, up) ==
    LET sim_tpls == (DOMAIN mp) \cup (DOMAIN up)
        prob_tuples == {<<sim, Get(mp, sim, Zero), Get(up, sim, Zero)>> :
                           sim \in sim_tpls}
    IN sort_prob_tuples(prob_tuples)

CityColumn == CHOOSE k \in 1..Len(Columns) : Columns[k] = "city"

NameColumn == CHOOSE k \in 1..Len(Columns) : Columns[k] = "restaurant name"

Blocked_OnName(block, za, fo, z_i, f_i) ==
    block /\ za[z_i][NameColumn] # fo[f_i][NameColumn]

\* line 47
Blocked(block, za, fo, z_i, f_i) ==
    block /\ za[z_i][CityColumn] # fo[f_i][CityColumn]

\* lines 49-50
OutputRow(ld, za, fo, z_i, f_i) ==
    <<z_i, f_i, Get(ld, gen_prob_tuple(z_i, f_i, za, fo), "possible match")>>

\* The files of known links and of unmatched pairs hold one row each.
TrainingFrames == Frames(1)

(* SpecFind: find_matches over the sample datasets.                        *)
InitFind ==
    /\ zagat \in Datasets(ZagatIndex)
    /\ fodors \in Datasets(FodorsIndex)
    /\ match \in TrainingFrames
    /\ unmatch \in TrainingFrames
    /\ mu \in Bounds01
    /\ lambda_ \in Bounds01
    /\ block_on_city \in BOOLEAN
    /\ pc = "train"
    /\ ordered_probs = << >>
    /\ label_dict = EmptyDict
    /\ i = 1 /\ j = 1
    /\ rows = << >>
    /\ u = Idle /\ m = Idle /\ labels = Idle /\ headAcc = Idle
    /\ tailAcc = Idle /\ headStop = Idle /\ tailStop = Idle
    /\ InitProbsIdle

findRest == <<mu, lambda_, u, m, labels, headAcc, tailAcc, headStop, tailStop,
              cpVars, dataVars, match, unmatch, block_on_city>>

\* lines 39-42
Train ==
    /\ pc = "train"
    /\ \E op \in ordered_probabilities(
                     compute_probabilities(match, zagat, fodors),
                     compute_probabilities(unmatch, zagat, fodors)) :
          /\ ordered_probs' = op
          /\ label_dict' = put_labels(op, mu, lambda_)
    /\ pc' = "pairs"
    /\ UNCHANGED <<i, j, rows, findRest>>

\* lines 45-46: the nested loops take their next (i, j)
NextPair ==
    /\ IF j < Len(FodorsIndex)
       THEN i' = i /\ j' = j + 1
       ELSE i' = i + 1 /\ j' = 1

\* lines 47-48
SkipPair ==
    /\ pc = "pairs"
    /\ i <= Len(ZagatIndex)
    /\ Blocked(block_on_city, zagat, fodors, ZagatIndex[i], FodorsIndex[j])
    /\ NextPair
    /\ UNCHANGED <<pc, rows, ordered_probs, label_dict, findRest>>

\* lines 49-50
WritePair ==
    /\ pc = "pairs"
    /\ i <= Len(ZagatIndex)
    /\ ~Blocked(block_on_city, zagat, fodors, ZagatIndex[i], FodorsIndex[j])
    /\ rows' = Append(rows, OutputRow(label_dict, zagat, fodors,
                                      ZagatIndex[i], FodorsIndex[j]))
    /\ NextPair
    /\ UNCHANGED <<pc, ordered_probs, label_dict, findRest>>

\* the loops are exhausted and the file is closed
Finish ==
    /\ pc = "pairs"
    /\ i > Len(ZagatIndex)
    /\ pc' = "done"
    /\ UNCHANGED <<i, j, rows, ordered_probs, label_dict, findRest>>

NextFind == Train \/ SkipPair \/ WritePair \/ Finish

SpecFind == InitFind /\ [][NextFind]_vars

----------------------------------------------------------------------------
(* Vocabulary of the find_matches claims *)

RowsSet == {rows[k] : k \in 1..Len(rows)}

PairSig(z_i, f_i) == gen_prob_tuple(z_i, f_i, zagat, fodors)

SameCity(z_i, f_i) == zagat[z_i][CityColumn] = fodors[f_i][CityColumn]

\* The cross product, outer loop over A, inner loop over B.
CrossProduct ==
    [k \in 1..(Len(ZagatIndex) * Len(FodorsIndex)) |->
        <<ZagatIndex[((k - 1) \div Len(FodorsIndex)) + 1],
          FodorsIndex[((k - 1) % Len(FodorsIndex)) + 1]>>]

IsSameCityPair(p) == SameCity(p[1], p[2])

SameCityPairs == SelectSeq(CrossProduct, IsSameCityPair)

MassOf(s, col) ==
    LET k == CHOOSE x \in Positions : SigOf(x) = s IN ordered_probs[k][col]

(* C8: with block_on_city, the rows written are exactly the pairs with     *)
(* equal cities, each once, outer loop over A and inner loop over B, each  *)
(* with the mapping's label for its signature or "possible match" when     *)
(* the mapping has no such key.                                            *)
C8_CityBlock ==
    block_on_city = TRUE =>
        /\ \A r \in RowsSet : SameCity(r[1], r[2])
        /\ pc = "done" =>
              /\ Len(rows) = Len(SameCityPairs)
              /\ \A k \in 1..Len(rows) :
                    /\ rows[k][1] = SameCityPairs[k][1]
                    /\ rows[k][2] = SameCityPairs[k][2]
                    /\ LET s == PairSig(rows[k][1], rows[k][2])
                       IN rows[k][3] = (IF s \in DOMAIN label_dict
                                        THEN label_dict[s]
                                        ELSE "possible match")

\* A finished blocked run that skipped a pair, wrote a row labelled from
\* the mapping and a row whose signature the mapping does not hold.
C8_Witness ==
    /\ block_on_city = TRUE
    /\ pc = "done"
    /\ Len(rows) >= 2
    /\ Len(rows) < Len(CrossProduct)
    /\ \E r \in RowsSet : PairSig(r[1], r[2]) \in DOMAIN label_dict
                          /\ r[3] # "possible match"
    /\ \E r \in RowsSet : PairSig(r[1], r[2]) \notin DOMAIN label_dict

(* C4 as stated: with mu = 0 and lambda_ = 0 the mapping is empty and      *)
(* every row written carries "possible match".                             *)
C4_EmptyMapping ==
    (mu = Zero /\ lambda_ = Zero /\ pc \in {"pairs", "done"}) =>
        /\ label_dict = EmptyDict
        /\ \A r \in RowsSet : r[3] = "possible match"

(* C4 amended: with mu = 0 and lambda_ = 0 the mapping has every signature *)
(* of the ranked list as a key: "match" for zero unmatch-mass, otherwise   *)
(* "unmatch" for zero match-mass, otherwise "possible match"; a row        *)
(* written by find_matches carries that label, and "possible match" when   *)
(* its signature is not in the list.                                       *)
C4_ZeroBounds ==
    (mu = Zero /\ lambda_ = Zero /\ pc \in {"pairs", "done"}) =>
        /\ DOMAIN label_dict = SigSet
        /\ \A k \in Positions :
              label_dict[SigOf(k)] =
                  (IF UnmatchMass(k) = Zero THEN "match"
                   ELSE IF MatchMass(k) = Zero THEN "unmatch"
                   ELSE "possible match")
        /\ \A r \in RowsSet :
              LET s == PairSig(r[1], r[2])
              IN r[3] = (IF s \notin SigSet THEN "possible match"
                         ELSE IF MassOf(s, 3) = Zero THEN "match"
                         ELSE IF MassOf(s, 2) = Zero THEN "unmatch"
                         ELSE "possible match")

\* A finished run with both bounds zero that wrote a "match" row, an
\* "unmatch" row and a "possible match" row.
C4_Witness ==
    /\ mu = Zero /\ lambda_ = Zero
    /\ pc = "done"
    /\ \E r \in RowsSet : r[3] = "match"
    /\ \E r \in RowsSet : r[3] = "unmatch"
    /\ \E r \in RowsSet : r[3] = "possible match"

====
